---- MODULE Spec2Model ----
(***************************************************************************)
(* Model of the RAG-APP chunking and retrieval pipeline (chroma_utils.py)  *)
(* and of the RAG variant classes built on it.                             *)
(*                                                                         *)
(* A word is a natural number: the words of one PDF are numbered 1, 2, ... *)
(* in reading order, so a word doubles as its position in the input.  The  *)
(* text of a page is the sequence of its whitespace-separated words, and   *)
(* the text of a chunk (" ".join of its words) is its sequence of words.   *)
(***************************************************************************)
EXTENDS Integers, Sequences, FiniteSets, TLC

\* ---------------------------------------------------------------- bounds
MaxPages == 3
MaxPageWords == 3
MaxL == 3
MaxO == 3
MaxTopK == 2
MaxCols == 2
MaxHistory == 2

\* ------------------------------------------------------------- constants
None == "None"

VARIABLES
    pc,              \* which operation has last completed
    page_texts,      \* chunk_text: argument, a sequence of <<text, page_num>>
    max_length,      \* chunk_text: argument
    overlap,         \* chunk_text: argument
    chunks,          \* chunk_text: first component of the result
    chunk_metadata,  \* chunk_text: second component of the result
    chroma,          \* chroma_client: the collections, by name
    call,            \* the arguments of the last call and what the
                     \* libraries it used did
    ret,             \* the value the last call returned
    variant,         \* the RAG variant class the instance is of
    max_history,     \* the instance: the maxlen of self.history
    history,         \* the instance: self.history, oldest turn first
    prompts          \* the prompts the last call sent to the LLM

chunkVars == <<page_texts, max_length, overlap, chunks, chunk_metadata>>
storeVars == <<chroma, call, ret>>
ragVars == <<variant, max_history, history, prompts>>
vars == <<pc, chunkVars, storeVars, ragVars>>

\* ------------------------------------------------------------- utilities
Max(a, b) == IF a >= b THEN a ELSE b
Min(a, b) == IF a <= b THEN a ELSE b
Last(s) == s[Len(s)]
Range(s) == {s[i] : i \in 1..Len(s)}

RECURSIVE SumSeq(_)
SumSeq(s) == IF s = <<>> THEN 0 ELSE s[1] + SumSeq(Tail(s))

\* the page texts of a PDF whose pages hold sizes[1], sizes[2], ... words
MkPdf(sizes) ==
    [i \in 1..Len(sizes) |->
        [j \in 1..sizes[i] |-> SumSeq(SubSeq(sizes, 1, i - 1)) + j]]

\* ----------------------------------------------------------- chunk_text
\* extract_pdf_text_with_pages: one (text, page_num + 1) pair per page, in
\* page order, blank pages included; [] when the reader raises
extract_pdf_text_with_pages(pdf, raises) ==
    IF raises THEN <<>>
    ELSE [i \in 1..Len(pdf) |-> <<pdf[i], i>>]

\* a slice taken from the wrong end: s[:k]
NegSlice_FromFront(s, k) == SubSeq(s, 1, Min(k, Len(s)))

\* Python's s[-k:] for k >= 0: the last k elements, but the whole of s when
\* k = 0 (-0 is 0) or k >= len(s)
NegSlice(s, k) ==
    IF k = 0 THEN s ELSE SubSeq(s, Max(Len(s) - k + 1, 1), Len(s))

\* Python's s[-1:]
LastOne(s) == IF s = <<>> THEN <<>> ELSE <<Last(s)>>

ChunkInit ==
    [chunks |-> <<>>, chunk_metadata |-> <<>>, current_chunk |-> <<>>,
     current_page_numbers |-> <<>>, word_count |-> 0]

\* the tail of current_chunk kept after a chunk is emitted (line 64)
KeepOverlap(current_chunk, O) ==
    IF O < Len(current_chunk) THEN NegSlice(current_chunk, O)
    ELSE current_chunk

\* all page numbers are kept
KeepPages_All(current_page_numbers) == current_page_numbers

\* the page numbers kept after a chunk is emitted (line 67)
KeepPages(current_page_numbers) == LastOne(current_page_numbers)

\* the body of the inner loop (lines 54-67) for one word
WordStep(st, word, page_num, L, O) ==
    LET cur == Append(st.current_chunk, word)
        wc == st.word_count + 1
        pn == IF st.current_page_numbers = <<>>
                 \/ Last(st.current_page_numbers) # page_num
              THEN Append(st.current_page_numbers, page_num)
              ELSE st.current_page_numbers
        kept == KeepOverlap(cur, O)
    IN  IF wc >= L
        THEN [chunks |-> Append(st.chunks, cur),
              chunk_metadata |->
                  Append(st.chunk_metadata, [page_numbers |-> pn]),
              current_chunk |-> kept,
              current_page_numbers |-> KeepPages(pn),
              word_count |-> Len(kept)]
        ELSE [st EXCEPT !.current_chunk = cur,
                        !.current_page_numbers = pn,
                        !.word_count = wc]

\* the inner loop over words[lo..hi], folded left to right.  The range is
\* halved, and the state after the first half is computed (the test on
\* word_count always holds) before the second half is entered, so that the
\* evaluation depth stays logarithmic in the number of words
RECURSIVE WordsLoop(_, _, _, _, _, _, _)
WordsLoop(st, words, lo, hi, page_num, L, O) ==
    IF lo > hi THEN st
    ELSE IF lo = hi THEN WordStep(st, words[lo], page_num, L, O)
    ELSE LET mid == (lo + hi) \div 2
             half == WordsLoop(st, words, lo, mid, page_num, L, O)
         IN  IF half.word_count >= 0
             THEN WordsLoop(half, words, mid + 1, hi, page_num, L, O)
             ELSE half

\* one iteration of the outer loop (lines 51-69)
PageStep(st, text, page_num, L, O) ==
    LET st1 == WordsLoop(st, text, 1, Len(text), page_num, L, O)
    IN  IF st1.current_chunk = <<>>
        THEN [st1 EXCEPT !.current_page_numbers = <<>>]
        ELSE st1

\* the outer loop over pts[i..]; the state after a page is computed (the
\* test on word_count always holds) before the next page is entered
RECURSIVE PagesLoop(_, _, _, _, _)
PagesLoop(st, pts, i, L, O) ==
    IF i > Len(pts) THEN st
    ELSE LET next == PageStep(st, pts[i][1], pts[i][2], L, O)
         IN  IF next.word_count >= 0
             THEN PagesLoop(next, pts, i + 1, L, O)
             ELSE next

\* the flush after the loops (lines 71-75)
FinalFlush(st) ==
    IF st.current_chunk # <<>>
    THEN [chunks |-> Append(st.chunks, st.current_chunk),
          chunk_metadata |->
              Append(st.chunk_metadata,
                     [page_numbers |-> st.current_page_numbers])]
    ELSE [chunks |-> st.chunks, chunk_metadata |-> st.chunk_metadata]

chunk_text(pts, L, O) == FinalFlush(PagesLoop(ChunkInit, pts, 1, L, O))

\* ------------------------------------------------------- stored strings
\* A string built by the program from numbers is a sequence of characters.
Digit(d) ==
    CASE d = 0 -> "0" [] d = 1 -> "1" [] d = 2 -> "2" [] d = 3 -> "3"
      [] d = 4 -> "4" [] d = 5 -> "5" [] d = 6 -> "6" [] d = 7 -> "7"
      [] d = 8 -> "8" [] d = 9 -> "9"

DigitValue(c) == CHOOSE d \in 0..9 : Digit(d) = c

\* str(n) for a natural number n
RECURSIVE Str(_)
Str(n) == IF n < 10 THEN <<Digit(n)>>
          ELSE Str(n \div 10) \o <<Digit(n % 10)>>

\* int(s) for a non-empty string of digits
RECURSIVE Int_(_)
Int_(s) == IF Len(s) = 1 THEN DigitValue(s[1])
           ELSE 10 * Int_(SubSeq(s, 1, Len(s) - 1)) + DigitValue(Last(s))

\* ",".join(reversed(parts)): the parts are written last first
RECURSIVE JoinComma_Reversed(_)
JoinComma_Reversed(parts) ==
    IF parts = <<>> THEN <<>>
    ELSE IF Len(parts) = 1 THEN parts[1]
    ELSE JoinComma_Reversed(Tail(parts)) \o <<",">> \o parts[1]

\* ",".join(parts)
RECURSIVE JoinComma(_)
JoinComma(parts) ==
    IF parts = <<>> THEN <<>>
    ELSE IF Len(parts) = 1 THEN parts[1]
    ELSE parts[1] \o <<",">> \o JoinComma(Tail(parts))

\* s.split(","): the fields between the commas, empty ones included
RECURSIVE SplitComma(_, _, _)
SplitComma(s, i, field) ==
    IF i > Len(s) THEN <<field>>
    ELSE IF s[i] = "," THEN <<field>> \o SplitComma(s, i + 1, <<>>)
    ELSE SplitComma(s, i + 1, Append(field, s[i]))

\* the page_numbers metadata string written by add_documents (line 111)
PageNumbersString(page_numbers) ==
    JoinComma([i \in 1..Len(page_numbers) |-> Str(page_numbers[i])])

\* the page_numbers list read back by query_collections (line 230)
ParsePageNumbers(str) ==
    LET fields == SelectSeq(SplitComma(str, 1, <<>>), LAMBDA f : f # <<>>)
    IN  [i \in 1..Len(fields) |-> Int_(fields[i])]

\* ------------------------------------------------------- the PDF files
\* The bytes of a PDF are named by a letter; PdfPages gives the number of
\* words on each of its pages.  "D" is not a readable PDF: PdfReader raises.
PdfBytes == {"A", "B", "C", "D"}

PdfValid(b) == b # "D"

PdfPages(b) ==
    CASE b = "A" -> <<50, 50, 50, 50, 50, 50, 50, 50, 50, 50, 100>>
      [] b = "B" -> <<2, 1>>
      [] b = "C" -> <<0>>
      [] b = "D" -> <<>>

FileNames == {"./a.pdf", "b.pdf"}

\* os.path.normpath on the file names above
normpath(filename) == IF filename = "./a.pdf" THEN "a.pdf" ELSE filename

\* the positions of an open file: at its start, inside it, at its end
FilePos == {"start", "mid", "end"}

\* file.read(): the bytes from the current position to the end
FileRead(b, pos) == IF pos = "end" THEN <<"", "end">> ELSE <<b, pos>>

\* hashlib.md5 of the bytes read, treated as injective
Md5(data) == <<"md5", data[1], data[2]>>

\* get_pdf_hash: the digest of what is left to read, None when reading raises
get_pdf_hash(b, pos, raises) ==
    IF raises THEN None ELSE Md5(FileRead(b, pos))

\* ------------------------------------------------------- add_documents
MaxLength == 500
Overlap == 100

\* extract_pdf_text_with_pages(pdf_file) for the bytes b (line 95)
PdfPageTexts(b) ==
    extract_pdf_text_with_pages(MkPdf(PdfPages(b)), ~PdfValid(b))

\* chunk_text(page_texts, max_length=500, overlap=100) for the bytes b
\* (line 100), tabulated once per PDF
PdfChunks ==
    [b \in PdfBytes |-> chunk_text(PdfPageTexts(b), MaxLength, Overlap)]

CollectionName(pdf_hash) == <<"pdf_", pdf_hash>>
ChunkId(pdf_hash, i) == <<pdf_hash, i>>

EmptyCollection == [ids |-> <<>>, documents |-> <<>>, metadatas |-> <<>>]

\* chroma_client.get_or_create_collection
GetOrCreate(db, name) ==
    IF name \in DOMAIN db THEN db
    ELSE [n \in DOMAIN db \cup {name} |->
              IF n = name THEN EmptyCollection ELSE db[n]]

\* a count that is 1 for every collection there is
Count_Existing(db, name) == IF name \in DOMAIN db THEN 1 ELSE 0

\* collection.count()
Count(db, name) == Len(db[name].ids)

\* the faults of the libraries add_documents calls: reading the file,
\* reaching the vector store, computing the embeddings, collection.add
Faults == {"none", "read", "client", "encode", "add"}

\* a seek that is left out: the file stays where the caller left it
Seek0_Missing(pos) == pos

\* the position pdf_file.seek(0) leaves the file at
Seek0(pos) == "start"

\* add_documents(pdf_file, filename) on the store db, where pdf_file holds
\* the bytes b and stands at position pos: the new store and the value
\* returned.  A collection is returned as its name.  collection.add is taken
\* to store all of its arguments or, when it raises, none of them.
add_documents(db, b, pos, filename, fault) ==
    LET fname == normpath(filename)
        pdf_hash == get_pdf_hash(b, Seek0(pos), fault = "read")
        name == CollectionName(pdf_hash)
        db1 == GetOrCreate(db, name)
        page_texts_ == PdfPageTexts(b)
        r == PdfChunks[b]
        ids == [i \in 1..Len(r.chunks) |-> ChunkId(pdf_hash, i - 1)]
        metadatas ==
            [i \in 1..Len(r.chunks) |->
                [chunk_id |-> ids[i],
                 page_numbers |->
                     PageNumbersString(r.chunk_metadata[i].page_numbers),
                 filename |-> fname]]
    IN  IF pdf_hash = None
            THEN [db |-> db, ret |-> <<None, FALSE>>]
        ELSE IF fault = "client"
            THEN [db |-> db, ret |-> <<None, FALSE>>]
        ELSE IF Count(db1, name) > 0
            THEN [db |-> db1, ret |-> <<name, FALSE>>]
        ELSE IF page_texts_ = <<>>
            THEN [db |-> db1, ret |-> <<name, FALSE>>]
        ELSE IF r.chunks = <<>>
            THEN [db |-> db1, ret |-> <<name, FALSE>>]
        ELSE IF fault = "encode"
            THEN [db |-> db1, ret |-> <<None, FALSE>>]
        ELSE IF fault = "add"
            THEN [db |-> db1, ret |-> <<name, FALSE>>]
        ELSE [db |-> [db1 EXCEPT ![name] =
                         [ids |-> ids, documents |-> r.chunks,
                          metadatas |-> metadatas]],
              ret |-> <<name, TRUE>>]

\* ---------------------------------------------------- query_collections
\* the distances a collection reports, and the value that stands for a
\* distance of None (no distance is negative)
Dists == {0, 1}
DistNone == -1

\* twice the similarity computed on line 222 (1 - dist / 2, or 0 for a
\* distance of None), so that it is an integer
similarity(dist) == IF dist # DistNone THEN 2 - dist ELSE 0

\* the sequences of k distinct elements of 1..n
Orderings(n, k) ==
    {o \in [1..k -> 1..n] : \A i, j \in 1..k : o[i] = o[j] => i = j}

\* what collection.query(n_results=top_k) can do on collection name: raise,
\* or return min(top_k, count) of its chunks by non-decreasing distance
QueryOutcomes(db, name, top_k) ==
    LET k == Min(top_k, Count(db, name))
    IN  {[raises |-> TRUE, hits |-> <<>>]} \cup
        {[raises |-> FALSE,
          hits |-> [i \in 1..k |-> [idx |-> o[i], dist |-> d[i]]]] :
            o \in Orderings(Count(db, name), k),
            d \in {e \in [1..k -> Dists \cup {DistNone}] :
                      \A i, j \in 1..k :
                          (i < j /\ e[i] # DistNone /\ e[j] # DistNone)
                              => e[i] <= e[j]}}

\* lines 225-236: one result of a collection as query_collections returns it
ParsedResult(db, name, hit) ==
    LET meta == db[name].metadatas[hit.idx]
    IN  [document |-> db[name].documents[hit.idx],
         metadata |-> [chunk_id |-> meta.chunk_id,
                       page_numbers |-> ParsePageNumbers(meta.page_numbers),
                       filename |-> meta.filename],
         similarity |-> similarity(hit.dist)]

ParsedResults(db, name, hits) ==
    [i \in 1..Len(hits) |-> ParsedResult(db, name, hits[i])]

\* x put into the list s, which is sorted by non-decreasing similarity,
\* behind the elements that are not more similar: what a forgotten
\* reverse=True would do
RECURSIVE InsertAsc(_, _)
InsertAsc(s, x) ==
    IF s = <<>> THEN <<x>>
    ELSE IF s[1].similarity <= x.similarity
         THEN <<s[1]>> \o InsertAsc(Tail(s), x)
         ELSE <<x>> \o s

\* x put into the list s, which is sorted by non-increasing similarity,
\* behind the elements that are at least as similar (the sort is stable)
RECURSIVE InsertDesc(_, _)
InsertDesc(s, x) ==
    IF s = <<>> THEN <<x>>
    ELSE IF s[1].similarity >= x.similarity
         THEN <<s[1]>> \o InsertDesc(Tail(s), x)
         ELSE <<x>> \o s

\* sorted(results, key=similarity, reverse=True)
RECURSIVE SortedBySimilarity(_)
SortedBySimilarity(results) ==
    IF results = <<>> THEN <<>>
    ELSE InsertDesc(SortedBySimilarity(SubSeq(results, 1, Len(results) - 1)),
                    Last(results))

\* s[:k]
Prefix(s, k) == SubSeq(s, 1, Min(k, Len(s)))

\* the print on line 223 computes 1 - d / 2 for every distance and raises a
\* TypeError on a distance of None
PrintRaises(hits) == \E i \in 1..Len(hits) : hits[i].dist = DistNone

\* the body of the loop (lines 211-237) raises for the collection whose
\* query did outcome
QueryRaises(outcome) == outcome.raises \/ PrintRaises(outcome.hits)

\* the results gathered by the loop over collections[i..] (lines 210-237)
RECURSIVE Gathered(_, _, _, _)
Gathered(db, collections, outcomes, i) ==
    IF i > Len(collections) THEN <<>>
    ELSE ParsedResults(db, collections[i], outcomes[i].hits)
             \o Gathered(db, collections, outcomes, i + 1)

\* a handler that returns what was gathered before the exception
OnQueryError_KeepGathered(gathered, top_k) ==
    Prefix(SortedBySimilarity(gathered), top_k)

\* the except clause (lines 242-244)
OnQueryError(gathered, top_k) == <<>>

\* the first collection whose query raises, 0 if there is none
FirstRaising(outcomes) ==
    IF \E i \in 1..Len(outcomes) : QueryRaises(outcomes[i])
    THEN CHOOSE i \in 1..Len(outcomes) :
             /\ QueryRaises(outcomes[i])
             /\ \A j \in 1..(i - 1) : ~QueryRaises(outcomes[j])
    ELSE 0

\* query_collections(query, collections, top_k) on the store db, where
\* embedding the query raises or not and the collections, in the order they
\* are queried, do outcomes
query_collections(db, query, collections, top_k, embed_raises, outcomes) ==
    LET f == FirstRaising(outcomes)
    IN  IF embed_raises THEN OnQueryError(<<>>, top_k)
        ELSE IF f # 0
        THEN OnQueryError(Gathered(db, SubSeq(collections, 1, f - 1),
                                   outcomes, 1), top_k)
        ELSE Prefix(SortedBySimilarity(Gathered(db, collections,
                                                outcomes, 1)), top_k)

\* ---------------------------------------------------- specification Spec
\* the vector store under add_documents

\* a store without collections
EmptyDb == <<>>

AddDocuments ==
    /\ pc = "idle"
    /\ \E b \in PdfBytes, pos \in FilePos, filename \in FileNames,
          fault \in Faults :
         LET r == add_documents(chroma, b, pos, filename, fault)
         IN  /\ chroma' = r.db
             /\ ret' = r.ret
             /\ call' = [bytes |-> b, pos |-> pos, filename |-> filename,
                         fault |-> fault]
             /\ pc' = "add_documents"
             /\ UNCHANGED <<chunkVars, ragVars>>

\* the caller takes the value returned and goes on (app.py lines 53-60)
Return ==
    /\ pc \notin {"idle", "args"}
    /\ pc' = "idle"
    /\ call' = <<>>
    /\ ret' = <<>>
    /\ prompts' = <<>>
    /\ UNCHANGED <<chunkVars, chroma, variant, max_history, history>>

\* ------------------------------------------------ specification SpecChunk
\* chunk_text as a pure function: the arguments are drawn in the initial
\* state, the one action applies the function

\* the sequences of page sizes of the PDFs that are chunked
PageSizes == UNION {[1..n -> 0..MaxPageWords] : n \in 0..MaxPages}

ChunkIdle ==
    /\ page_texts = <<>>
    /\ max_length = 1
    /\ overlap = 0
    /\ chunks = <<>>
    /\ chunk_metadata = <<>>

StoreIdle ==
    /\ chroma = <<>>
    /\ call = <<>>
    /\ ret = <<>>

\* no instance of a RAG variant
RagIdle ==
    /\ variant = "none"
    /\ max_history = 1
    /\ history = <<>>
    /\ prompts = <<>>

InitChunk ==
    /\ pc = "args"
    /\ StoreIdle
    /\ RagIdle
    /\ page_texts \in
           {extract_pdf_text_with_pages(MkPdf(sizes), FALSE) :
                sizes \in PageSizes}
    /\ max_length \in 1..MaxL
    /\ overlap \in 0..MaxO
    /\ chunks = <<>>
    /\ chunk_metadata = <<>>

ChunkText ==
    /\ pc = "args"
    /\ LET r == chunk_text(page_texts, max_length, overlap)
       IN  /\ chunks' = r.chunks
           /\ chunk_metadata' = r.chunk_metadata
    /\ pc' = "chunk_text"
    /\ UNCHANGED <<page_texts, max_length, overlap, storeVars, ragVars>>

NextChunk == ChunkText

SpecChunk == InitChunk /\ [][NextChunk]_vars

\* ---------------------------------------------- properties of chunk_text
\* the input word sequence: the words of all pages in page order
RECURSIVE InputWords(_)
InputWords(pts) ==
    IF pts = <<>> THEN <<>> ELSE pts[1][1] \o InputWords(Tail(pts))

\* the pages that contributed at least one of the words of chunk c
PagesOf(pts, c) ==
    {pts[i][2] : i \in {k \in 1..Len(pts) : Range(pts[k][1]) \cap Range(c) # {}}}

Chunked == pc = "chunk_text"

\* a run of consecutive input positions
Contiguous(c) == \A j \in 1..(Len(c) - 1) : c[j + 1] = c[j] + 1

\* C1: for 0 <= overlap < max_length, every chunk but the last has exactly
\* max_length words, and every chunk after the first begins with exactly the
\* last overlap words of the chunk before it: it starts with them and shares
\* no other word with it (with overlap = 0 consecutive chunks are disjoint).
C1_SlidingWindow ==
    (Chunked /\ overlap < max_length) =>
        /\ \A i \in 1..(Len(chunks) - 1) : Len(chunks[i]) = max_length
        /\ \A i \in 2..Len(chunks) :
              /\ Len(chunks[i]) >= overlap
              /\ SubSeq(chunks[i], 1, overlap) =
                     SubSeq(chunks[i - 1],
                            Len(chunks[i - 1]) - overlap + 1,
                            Len(chunks[i - 1]))
              /\ Cardinality(Range(chunks[i]) \cap Range(chunks[i - 1]))
                     = overlap

\* C2: nothing is lost or reordered: every chunk is a non-empty contiguous
\* run of the input word sequence, the chunks start at non-decreasing input
\* positions, and every input word occurs in some chunk.
C2_NothingLost ==
    Chunked =>
        /\ \A i \in 1..Len(chunks) :
              /\ chunks[i] # <<>>
              /\ Contiguous(chunks[i])
              /\ Range(chunks[i]) \subseteq Range(InputWords(page_texts))
        /\ \A i \in 2..Len(chunks) : chunks[i - 1][1] <= chunks[i][1]
        /\ Range(InputWords(page_texts)) =
               UNION {Range(chunks[i]) : i \in 1..Len(chunks)}
        /\ Len(chunk_metadata) = Len(chunks)

\* a run with several chunks, one of which starts inside the previous one,
\* from an input that spans more than one page
C2_Witness ==
    /\ Chunked
    /\ Len(chunks) >= 3
    /\ Len(page_texts) >= 2
    /\ overlap >= max_length
    /\ \E i \in 2..Len(chunks) : chunks[i][1] > chunks[i - 1][1]

\* C3: the page_numbers recorded for a chunk are exactly the pages that
\* contributed at least one word to it, overlap words included.
C3_PagesExact ==
    Chunked =>
        \A i \in 1..Len(chunks) :
            Range(chunk_metadata[i].page_numbers) =
                PagesOf(page_texts, chunks[i])

\* ------------------------------------------- properties of add_documents
\* the collections that hold the chunks of the PDF with bytes b
StoredIn(db, b) ==
    {n \in DOMAIN db :
        /\ db[n].documents # <<>>
        /\ db[n].documents = PdfChunks[b].chunks}

\* no collection holds a chunk id twice, and no PDF is held by two collections
NoChunkTwice(db) ==
    /\ \A n \in DOMAIN db :
          /\ Len(db[n].documents) = Len(db[n].ids)
          /\ Len(db[n].metadatas) = Len(db[n].ids)
          /\ \A i, j \in 1..Len(db[n].ids) :
                db[n].ids[i] = db[n].ids[j] => i = j
    /\ \A b \in PdfBytes : Cardinality(StoredIn(db, b)) <= 1

\* the libraries answered up to the point where add_documents looks at the
\* collection's count
ReachedCount(c) == c.fault \notin {"read", "client"}

\* C4: documents are deduplicated by content hash: a call of add_documents
\* with a PDF whose bytes are already stored in a non-empty collection, under
\* whatever file name, leaves the store as it is and (when the file can be
\* read and the store answers) returns that collection with processed =
\* False; no chunk is ever stored twice.
C4_Dedup ==
    [][pc' = "add_documents" =>
          /\ NoChunkTwice(chroma')
          /\ \A n \in StoredIn(chroma, call'.bytes) :
                /\ chroma' = chroma
                /\ ReachedCount(call') => ret' = <<n, FALSE>>]_vars

\* the two-chunk PDF "A" is offered again under another file name and from
\* another file position, and is found in its collection
C4_Witness ==
    /\ pc = "add_documents"
    /\ call.bytes = "A"
    /\ call.fault = "none"
    /\ call.pos = "mid"
    /\ ret[1] \in StoredIn(chroma, "A")
    /\ ret[2] = FALSE
    /\ Len(chroma[ret[1]].ids) = 2
    /\ chroma[ret[1]].metadatas[1].filename # normpath(call.filename)

Init ==
    /\ pc = "idle"
    /\ ChunkIdle
    /\ RagIdle
    /\ chroma = EmptyDb
    /\ call = <<>>
    /\ ret = <<>>

Next == AddDocuments \/ Return

Spec == Init /\ [][Next]_vars

\* ----------------------------------------------- specification SpecQuery
\* query_collections as a function of the store: the store, the arguments
\* and what the libraries do are drawn in the initial state, the one action
\* applies the function

\* the store after add_documents for each of the PDFs bs, in turn
RECURSIVE StoreWith(_)
StoreWith(bs) ==
    IF bs = <<>> THEN EmptyDb
    ELSE add_documents(StoreWith(SubSeq(bs, 1, Len(bs) - 1)), Last(bs),
                       "start", "b.pdf", "none").db

QueryStore == StoreWith(<<"A", "B", "C">>)

Queries == {"", "q"}

\* the lists of at most MaxCols collections of the store db
CollectionLists(db) == UNION {[1..n -> DOMAIN db] : n \in 0..MaxCols}

\* what the collections cols can do, one after the other, when each is
\* asked for top_k results
RECURSIVE OutcomeLists(_, _, _)
OutcomeLists(db, cols, top_k) ==
    IF cols = <<>> THEN {<<>>}
    ELSE {<<first>> \o rest :
             first \in QueryOutcomes(db, cols[1], top_k),
             rest \in OutcomeLists(db, Tail(cols), top_k)}

\* what the embedder and the collections cols can do during a call of
\* query_collections (no collection is queried when embedding the query
\* raises)
QueryEnvs(db, cols, top_k) ==
    {[embed_raises |-> TRUE, outcomes |-> <<>>]} \cup
    {[embed_raises |-> FALSE, outcomes |-> outs] :
        outs \in OutcomeLists(db, cols, top_k)}

InitQuery ==
    /\ pc = "args"
    /\ ChunkIdle
    /\ RagIdle
    /\ chroma = QueryStore
    /\ \E q \in Queries, cols \in CollectionLists(QueryStore),
          k \in 1..MaxTopK :
         \E e \in QueryEnvs(QueryStore, cols, k) :
           call = [query |-> q, collections |-> cols, top_k |-> k,
                   embed_raises |-> e.embed_raises, outcomes |-> e.outcomes]
    /\ ret = <<>>

QueryCollections ==
    /\ pc = "args"
    /\ ret' = query_collections(chroma, call.query, call.collections,
                                call.top_k, call.embed_raises, call.outcomes)
    /\ pc' = "query_collections"
    /\ UNCHANGED <<chunkVars, chroma, call, ragVars>>

NextQuery == QueryCollections

SpecQuery == InitQuery /\ [][NextQuery]_vars

\* ---------------------------------------- properties of query_collections
Queried == pc = "query_collections"

\* the number of times x occurs in the list s
Occurrences(x, s) == Cardinality({i \in 1..Len(s) : s[i] = x})

\* an exception was raised during the call
QueryFailed(c) ==
    c.embed_raises \/ \E i \in 1..Len(c.outcomes) : QueryRaises(c.outcomes[i])

\* the results the individual collections returned during the call c
Candidates(c) ==
    Gathered(chroma, SubSeq(c.collections, 1, Len(c.outcomes)),
             [i \in 1..Len(c.outcomes) |->
                 IF c.outcomes[i].raises THEN [raises |-> TRUE, hits |-> <<>>]
                 ELSE c.outcomes[i]], 1)

\* C5: query_collections merges and ranks across collections: it returns at
\* most top_k results, by non-increasing similarity, all of them results of
\* the individual collections; no result that was left out is strictly more
\* similar than one that was returned, and unless an exception cut the call
\* short the min(top_k, number of candidates) best ones are returned.
C5_MergeRank ==
    Queried =>
        LET cands == Candidates(call)
        IN  /\ Len(ret) <= call.top_k
            /\ \A i \in 1..(Len(ret) - 1) :
                  ret[i].similarity >= ret[i + 1].similarity
            /\ \A x \in Range(ret) :
                  Occurrences(x, ret) <= Occurrences(x, cands)
            /\ \A x \in Range(cands) :
                  Occurrences(x, cands) > Occurrences(x, ret) =>
                      \A i \in 1..Len(ret) :
                          ret[i].similarity >= x.similarity
            /\ ~QueryFailed(call) =>
                  Len(ret) = Min(call.top_k, Len(cands))

\* two collections return more than top_k results between them, the best one
\* comes from the collection queried second, and a result is left out
C5_Witness ==
    /\ Queried
    /\ ~QueryFailed(call)
    /\ Len(call.collections) = 2
    /\ call.collections[1] # call.collections[2]
    /\ Len(Candidates(call)) > call.top_k
    /\ Len(ret) = 2
    /\ ret[1].similarity > ret[2].similarity
    /\ ret[1] # Candidates(call)[1]
    /\ ret[1].metadata.chunk_id[1] # ret[2].metadata.chunk_id[1]

\* C10: query_collections never propagates an exception: when embedding the
\* query or querying a collection raises it returns the empty list, also
\* when collections queried earlier in the call had returned results.
C10_ErrorsGiveEmptyList ==
    (Queried /\ QueryFailed(call)) => ret = <<>>

\* the first collection returns results, querying the second one raises
C10_Witness ==
    /\ Queried
    /\ ~call.embed_raises
    /\ Len(call.collections) = 2
    /\ ~QueryRaises(call.outcomes[1])
    /\ call.outcomes[1].hits # <<>>
    /\ call.outcomes[2].raises
    /\ ret = <<>>

\* ------------------------------------------------------ the RAG variants
\* A string the variants build is a record of its parts.  A query is the
\* sequence of its characters, an answer of the LLM a sequence of tokens:
\* " " is white space, "{" and "}" are braces, "j" is the body of a JSON
\* object, "t" is text that is not JSON.

Variants == {"conversational", "multi_query", "multi_document",
             "hierarchical", "structured_output", "agentic"}

\* ---- self.history
\* a deque that keeps what it holds when it is full
add_to_history_KeepOldest(self, query, response) ==
    IF Len(self.history) < self.max_history
    THEN Append(self.history, <<query, response>>)
    ELSE self.history

\* self.history.append((query, response)) on deque(maxlen=max_history)
add_to_history(self, query, response) ==
    IF self.max_history = 0 THEN self.history
    ELSE IF Len(self.history) < self.max_history
         THEN Append(self.history, <<query, response>>)
         ELSE Append(Tail(self.history), <<query, response>>)

\* the turns numbered from 0
get_history_context_FromZero(self) ==
    [i \in 1..Len(self.history) |->
        [turn |-> i - 1, query |-> self.history[i][1],
         response |-> self.history[i][2]]]

\* get_history_context: "" for an empty history, else one entry per turn,
\* numbered from 1
get_history_context(self) ==
    [i \in 1..Len(self.history) |->
        [turn |-> i, query |-> self.history[i][1],
         response |-> self.history[i][2]]]

\* ---- strings
NoStructured ==
    [question |-> <<>>, summary |-> <<>>, ellipsis |-> FALSE,
     details |-> <<>>, pages |-> {}, source |-> ""]

\* what a response consists of: the lines of a raw response, the tokens of
\* an answer of the LLM, or a structured response and the indent it is
\* written with
Content(type, lines, tokens, structured, indent) ==
    [type |-> type, lines |-> lines, tokens |-> tokens,
     structured |-> structured, indent |-> indent]

NoContent == Content("", <<>>, <<>>, NoStructured, 0)
RawResponse(lines) == Content("raw", lines, <<>>, NoStructured, 0)
AnswerText(tokens) == Content("text", <<>>, tokens, NoStructured, 0)

\* json.dumps(structured_response, indent=indent)
JsonDumps(structured, indent) ==
    Content("json", <<>>, <<>>, structured, indent)

\* json.dumps(json.loads(tokens), indent=indent)
JsonReformat(tokens, indent) ==
    Content("json", <<>>, tokens, NoStructured, indent)

\* the string a variant returns: the text in front, the content, the note
\* on images behind it and, for agentic_rag, the reasoning steps in front
Returns(head, content) ==
    [raised |-> FALSE, head |-> head, content |-> content, note |-> FALSE,
     reasoning |-> <<>>]

\* s.strip()
RECURSIVE LStrip(_)
LStrip(s) ==
    IF s # <<>> /\ s[1] = " " THEN LStrip(Tail(s)) ELSE s

RECURSIVE RStrip(_)
RStrip(s) ==
    IF s # <<>> /\ Last(s) = " " THEN RStrip(SubSeq(s, 1, Len(s) - 1))
    ELSE s

Strip(s) == RStrip(LStrip(s))

\* re.search(r'\{.*\}', s, re.DOTALL): from the first "{" to the last "}"
\* behind it; <<>> when there is no match
ReSearchJson(s) ==
    LET opens == {i \in 1..Len(s) : s[i] = "{"}
        first == CHOOSE i \in opens : \A j \in opens : i <= j
        closes == {i \in 1..Len(s) : s[i] = "}" /\ i > first}
        last == CHOOSE i \in closes : \A j \in closes : j <= i
    IN  IF opens = {} THEN <<>>
        ELSE IF closes = {} THEN <<>>
        ELSE SubSeq(s, first, last)

\* json.loads(s) raises JSONDecodeError unless s is a JSON document
JsonLoadsRaises(s) == s # <<"{", "j", "}">>

\* lines 152-158 of Structured_Output_RAG.py: the answer of the LLM,
\* stripped and cut down to the JSON object in it, if there is one
StructuredAnswer(content) ==
    LET structured_answer == Strip(content)
        json_match == ReSearchJson(structured_answer)
    IN  IF json_match # <<>> THEN Strip(json_match) ELSE structured_answer

\* ---- the lines of a raw response and of the context of a prompt
\* f"Chunk {i+1} (Similarity: ..., {page_ref}[, PDF: {filename}]):\n{doc}\n"
ChunkLine(number, result, with_filename) ==
    [line |-> "chunk", query |-> <<>>, number |-> number,
     chunk_id |-> <<>>,
     similarity |-> result.similarity,
     page_numbers |-> result.metadata.page_numbers,
     filename |-> IF with_filename THEN result.metadata.filename ELSE "",
     document |-> result.document]

\* f"Document {i+1} ({page_ref}[, PDF: {filename}]):\n{doc}\n\n"
ContextLine(number, result, with_filename) ==
    [query |-> <<>>, number |-> number, chunk_id |-> <<>>,
     page_numbers |-> result.metadata.page_numbers,
     filename |-> IF with_filename THEN result.metadata.filename ELSE "",
     document |-> result.document]

\* the indices 1..n, in order
Indices(n) == [i \in 1..n |-> i]

\* the indices of the results that the loop does not skip: those whose
\* chunk_id no earlier result has
FirstOccurrences(results) ==
    SelectSeq(Indices(Len(results)),
              LAMBDA i : \A j \in 1..(i - 1) :
                  results[j].metadata.chunk_id
                      # results[i].metadata.chunk_id)

\* summary: the first 200 characters and "..." of a longer document; a
\* word is taken to be one character, so that 100 words and the blanks
\* behind them are 200 characters
Summary(document) ==
    IF 2 * Len(document) - 1 > 200
    THEN [text |-> SubSeq(document, 1, 100), ellipsis |-> TRUE]
    ELSE [text |-> document, ellipsis |-> FALSE]

\* the last of the results, whatever its similarity
BestResult_Last(results) == results[Len(results)]

\* max(results, key=similarity): the first of the most similar results
BestResult(results) ==
    LET i == CHOOSE k \in 1..Len(results) :
                 /\ \A j \in 1..Len(results) :
                        results[j].similarity <= results[k].similarity
                 /\ \A j \in 1..(k - 1) :
                        results[j].similarity < results[k].similarity
    IN  results[i]

\* the structured response built without the LLM
StructuredResponse(query, results, raw_lines) ==
    LET best_result == BestResult(results)
        summary == Summary(best_result.document)
    IN  [question |-> query,
         summary |-> summary.text,
         ellipsis |-> summary.ellipsis,
         details |-> raw_lines,
         pages |-> UNION {Range(results[i].metadata.page_numbers) :
                             i \in 1..Len(results)},
         source |-> best_result.metadata.filename]

\* ---- what a call does: the value returned, the history it leaves, the
\* prompts it sent to the LLM, the turns it recorded, the number of chunks
\* retrieval gave it, and the exception that reached its handler
Outcome(self, returned, retrieved) ==
    [ret |-> returned, history |-> self.history, prompts |-> <<>>,
     recorded |-> <<>>, retrieved |-> retrieved, exception |-> "none"]

\* the call recorded the turn and returned
Recording(self, query, response, returned, retrieved, prompts_) ==
    [ret |-> returned, history |-> add_to_history(self, query, response),
     prompts |-> prompts_, recorded |-> <<<<query, response>>>>,
     retrieved |-> retrieved, exception |-> "none"]

\* a handler that lets the exception go
OnRagError_Propagate(head) ==
    [raised |-> TRUE, head |-> "", content |-> NoContent, note |-> FALSE,
     reasoning |-> <<>>]

\* except Exception as e: return f"Error processing query: {str(e)}"
OnRagError(head) == Returns(head, NoContent)

\* the call ran into an exception of kind exception
Except(self, head, retrieved, prompts_, exception) ==
    [ret |-> OnRagError(head), history |-> self.history,
     prompts |-> prompts_, recorded |-> <<>>, retrieved |-> retrieved,
     exception |-> exception]

\* query_collections as the variants call it: invocation is what the
\* embedder and the collections do during this call of it
Retrieve(db, query, collections, top_k, invocation) ==
    query_collections(db, query, collections, top_k,
                      invocation.embed_raises, invocation.outcomes)

\* ---- ConversationalRAG.conversational_rag
conversational_rag(self, db, query, collections, top_k, fine_tune, env) ==
    LET results == Retrieve(db, query, collections, top_k,
                            env.retrievals[1])
        n == Len(results)
        raw_response ==
            RawResponse([i \in 1..n |-> ChunkLine(i, results[i], FALSE)])
        context == [i \in 1..n |-> ContextLine(i, results[i], FALSE)]
        prompt == [history_context |-> get_history_context(self),
                   context |-> context, question |-> <<query>>]
        answer == AnswerText(Strip(env.llm.content))
    IN  IF collections = <<>>
        THEN Outcome(self,
                 Returns("No document collections available to query.",
                         NoContent), 0)
        ELSE IF results = <<>>
        THEN Outcome(self,
                 Returns("No relevant documents found for the query.",
                         NoContent), 0)
        ELSE IF ~fine_tune
        THEN Recording(self, query, raw_response,
                 Returns("Raw RAG Response:", raw_response), n, <<>>)
        ELSE IF env.llm.raises
        THEN Except(self, "Error processing query: ", n, <<prompt>>, "llm")
        ELSE Recording(self, query, answer,
                 Returns("Fine-Tuned RAG Answer:", answer), n, <<prompt>>)

\* ---- MultiQueryRAG.multi_query_rag
\* the loop over queries[i..] (lines 74-99), chunk_ids being the ids seen
\* so far: the lines of the raw response, the context and the results kept
RECURSIVE MultiQueryLoop(_, _, _, _, _, _, _)
MultiQueryLoop(db, queries, collections, top_k, env, i, chunk_ids) ==
    IF i > Len(queries)
    THEN [lines |-> <<>>, context |-> <<>>, all_results |-> <<>>]
    ELSE
    LET query == queries[i]
        results == Retrieve(db, query, collections, top_k,
                            env.retrievals[i])
        kept == SelectSeq(FirstOccurrences(results),
                    LAMBDA k : results[k].metadata.chunk_id \notin chunk_ids)
        query_results == [k \in 1..Len(kept) |-> results[kept[k]]]
        header == [line |-> IF results = <<>> THEN "none_found"
                            ELSE "query",
                   query |-> query, number |-> 0, chunk_id |-> <<>>,
                   similarity |-> 0, page_numbers |-> <<>>,
                   filename |-> "", document |-> <<>>]
        lines == [k \in 1..Len(kept) |->
                     [ChunkLine(0, query_results[k], FALSE)
                          EXCEPT !.chunk_id =
                                     query_results[k].metadata.chunk_id]]
        context == [k \in 1..Len(kept) |->
                       [ContextLine(0, query_results[k], FALSE)
                            EXCEPT !.chunk_id =
                                       query_results[k].metadata.chunk_id,
                                   !.query = query]]
        rest == MultiQueryLoop(db, queries, collections, top_k, env, i + 1,
                    chunk_ids \cup
                        {query_results[k].metadata.chunk_id :
                             k \in 1..Len(kept)})
    IN  [lines |-> <<header>> \o lines \o rest.lines,
         context |-> context \o rest.context,
         all_results |-> query_results \o rest.all_results]

multi_query_rag(self, db, queries, collections, top_k, fine_tune, env) ==
    LET loop == MultiQueryLoop(db, queries, collections, top_k, env, 1, {})
        n == Len(loop.all_results)
        raw_response == RawResponse(loop.lines)
        prompt == [history_context |-> get_history_context(self),
                   context |-> loop.context, question |-> queries]
        answer == AnswerText(Strip(env.llm.content))
    IN  IF collections = <<>>
        THEN Outcome(self,
                 Returns("No document collections available to query.",
                         NoContent), 0)
        ELSE IF queries = <<>>
        THEN Outcome(self, Returns("No queries provided.", NoContent), 0)
        ELSE IF loop.all_results = <<>>
        THEN Recording(self, queries, raw_response,
                 Returns("Raw Multi-Query RAG Response:", raw_response),
                 0, <<>>)
        ELSE IF ~fine_tune
        THEN Recording(self, queries, raw_response,
                 Returns("Raw Multi-Query RAG Response:", raw_response),
                 n, <<>>)
        ELSE IF env.llm.raises
        THEN Except(self, "Error processing queries: ", n, <<prompt>>,
                    "llm")
        ELSE Recording(self, queries, answer,
                 Returns("Fine-Tuned Multi-Query RAG Answer:", answer),
                 n, <<prompt>>)

\* ---- MultiDocumentRAG.multi_document_rag
multi_document_rag(self, db, query, collections, top_k, fine_tune, env) ==
    LET results == Retrieve(db, query, collections, top_k,
                            env.retrievals[1])
        kept == FirstOccurrences(results)
        raw_response ==
            RawResponse([k \in 1..Len(kept) |->
                            ChunkLine(kept[k], results[kept[k]], TRUE)])
        context == [k \in 1..Len(kept) |->
                       ContextLine(kept[k], results[kept[k]], TRUE)]
        prompt == [history_context |-> get_history_context(self),
                   context |-> context, question |-> <<query>>]
        answer == AnswerText(Strip(env.llm.content))
    IN  IF collections = <<>>
        THEN Outcome(self,
                 Returns("No document collections available to query.",
                         NoContent), 0)
        ELSE IF query = <<>>
        THEN Outcome(self, Returns("No query provided.", NoContent), 0)
        ELSE IF results = <<>>
        THEN Outcome(self,
                 Returns("No relevant documents found for the query.",
                         NoContent), 0)
        ELSE IF kept = <<>>
        THEN Recording(self, query, raw_response,
                 [Returns("Raw Multi-Document RAG Response:", raw_response)
                      EXCEPT !.note = TRUE], Len(results), <<>>)
        ELSE IF ~fine_tune
        THEN Recording(self, query, raw_response,
                 Returns("Raw Multi-Document RAG Response:", raw_response),
                 Len(results), <<>>)
        ELSE IF env.llm.raises
        THEN Except(self, "Error processing query: ", Len(results),
                    <<prompt>>, "llm")
        ELSE Recording(self, query, answer,
                 Returns("Fine-Tuned Multi-Document RAG Answer:", answer),
                 Len(results), <<prompt>>)

\* ---- HierarchicalRAG.hierarchical_rag
\* meta.get("page_count", 0)
PageCount(meta) ==
    IF "page_count" \in DOMAIN meta THEN meta.page_count ELSE 0

RECURSIVE SumPageCount(_)
SumPageCount(metadata) ==
    IF metadata = <<>> THEN 0
    ELSE PageCount(metadata[1]) + SumPageCount(Tail(metadata))

\* lines 72-76: one entry for every collection that holds a chunk; the
\* average page count is kept as the sum and the number of chunks
CoarseResults(db, collections) ==
    LET with_chunks == SelectSeq(collections,
                           LAMBDA c : db[c].metadatas # <<>>)
    IN  [i \in 1..Len(with_chunks) |->
            [collection |-> with_chunks[i],
             page_sum |-> SumPageCount(db[with_chunks[i]].metadatas),
             chunk_count |-> Len(db[with_chunks[i]].metadatas),
             filename |-> db[with_chunks[i]].metadatas[1].filename]]

\* a.page_count >= b.page_count
PageCountGeq(a, b) ==
    a.page_sum * b.chunk_count >= b.page_sum * a.chunk_count

RECURSIVE InsertByPageCount(_, _)
InsertByPageCount(s, x) ==
    IF s = <<>> THEN <<x>>
    ELSE IF PageCountGeq(s[1], x)
         THEN <<s[1]>> \o InsertByPageCount(Tail(s), x)
         ELSE <<x>> \o s

\* sorted(coarse_results, key=page_count, reverse=True)
RECURSIVE SortedByPageCount(_)
SortedByPageCount(s) ==
    IF s = <<>> THEN <<>>
    ELSE InsertByPageCount(SortedByPageCount(SubSeq(s, 1, Len(s) - 1)),
                           Last(s))

\* line 77
CoarseSelection(db, collections, top_k_coarse) ==
    Prefix(SortedByPageCount(CoarseResults(db, collections)), top_k_coarse)

\* the loop over coarse_results[i..] (lines 85-107), chunk_ids being the
\* ids seen so far
RECURSIVE FineLoop(_, _, _, _, _, _, _)
FineLoop(db, query, coarse_results, top_k_fine, env, i, chunk_ids) ==
    IF i > Len(coarse_results)
    THEN [lines |-> <<>>, context |-> <<>>, fine_results |-> <<>>,
          chunk_ids |-> chunk_ids]
    ELSE
    LET results == Retrieve(db, query, <<coarse_results[i].collection>>,
                            top_k_fine, env.retrievals[i])
        kept == SelectSeq(FirstOccurrences(results),
                    LAMBDA k : results[k].metadata.chunk_id \notin chunk_ids)
        rest == FineLoop(db, query, coarse_results, top_k_fine, env, i + 1,
                    chunk_ids \cup
                        {results[kept[k]].metadata.chunk_id :
                             k \in 1..Len(kept)})
    IN  [lines |-> [k \in 1..Len(kept) |->
                       ChunkLine(kept[k], results[kept[k]], TRUE)]
                       \o rest.lines,
         context |-> [k \in 1..Len(kept) |->
                         ContextLine(kept[k], results[kept[k]], TRUE)]
                         \o rest.context,
         fine_results |-> results \o rest.fine_results,
         chunk_ids |-> rest.chunk_ids]

hierarchical_rag(self, db, query, collections, top_k_coarse, top_k_fine, fine_tune, env) ==
    LET coarse_results == CoarseSelection(db, collections, top_k_coarse)
        loop == FineLoop(db, query, coarse_results, top_k_fine, env, 1, {})
        n == Len(loop.fine_results)
        raw_response == RawResponse(loop.lines)
        prompt == [history_context |-> get_history_context(self),
                   context |-> loop.context, question |-> <<query>>]
        answer == AnswerText(Strip(env.llm.content))
    IN  IF collections = <<>>
        THEN Outcome(self,
                 Returns("No document collections available to query.",
                         NoContent), 0)
        ELSE IF query = <<>>
        THEN Outcome(self, Returns("No query provided.", NoContent), 0)
        ELSE IF env.get_raises
        THEN Except(self, "Error processing query: ", 0, <<>>, "get")
        ELSE IF loop.chunk_ids = {}
        THEN Outcome(self,
                 [Returns("Raw Hierarchical RAG Response:", raw_response)
                      EXCEPT !.note = TRUE], n)
        ELSE IF ~fine_tune
        THEN Outcome(self,
                 Returns("Raw Hierarchical RAG Response:", raw_response), n)
        ELSE IF env.llm.raises
        THEN Except(self, "Error processing query: ", n, <<prompt>>, "llm")
        ELSE [Outcome(self,
                  Returns("Fine-Tuned Hierarchical RAG Answer:", answer), n)
                  EXCEPT !.prompts = <<prompt>>]

\* ---- StructuredOutputRAG.structured_output_rag
structured_output_rag(self, db, query, collections, top_k, fine_tune, env) ==
    LET results == Retrieve(db, query, collections, top_k,
                            env.retrievals[1])
        kept == FirstOccurrences(results)
        lines == [k \in 1..Len(kept) |->
                     ChunkLine(kept[k], results[kept[k]], TRUE)]
        context == [k \in 1..Len(kept) |->
                       ContextLine(kept[k], results[kept[k]], TRUE)]
        structured_response == StructuredResponse(query, results, lines)
        prompt == [history_context |-> get_history_context(self),
                   context |-> context, question |-> <<query>>]
        structured_answer == StructuredAnswer(env.llm.content)
    IN  IF collections = <<>>
        THEN Outcome(self,
                 Returns("No document collections available to query.",
                         NoContent), 0)
        ELSE IF query = <<>>
        THEN Outcome(self, Returns("No query provided.", NoContent), 0)
        ELSE IF results = <<>>
        THEN Outcome(self,
                 Returns("No relevant documents found for the query.",
                         NoContent), 0)
        ELSE IF kept = <<>>
        THEN Outcome(self,
                 [Returns("Raw Structured Output RAG Response:",
                          RawResponse(lines)) EXCEPT !.note = TRUE],
                 Len(results))
        ELSE IF ~fine_tune
        THEN Outcome(self,
                 Returns("Structured Output RAG Response:",
                         JsonDumps(structured_response, 2)), Len(results))
        ELSE IF env.llm.raises
        THEN Except(self, "Error processing query: ", Len(results),
                    <<prompt>>, "llm")
        ELSE IF JsonLoadsRaises(structured_answer)
        THEN [Outcome(self,
                  Returns("Error: Invalid JSON response from LLM:",
                          AnswerText(structured_answer)), Len(results))
                  EXCEPT !.prompts = <<prompt>>, !.exception = "json"]
        ELSE [Outcome(self,
                  Returns("Structured Output RAG Response:",
                          JsonReformat(structured_answer, 2)), Len(results))
                  EXCEPT !.prompts = <<prompt>>]

\* ---- AgenticRAG.analyze_query
\* c.lower()
Lower(c) ==
    CASE c = "A" -> "a"
      [] c = "N" -> "n"
      [] c = "D" -> "d"
      [] OTHER -> c

\* sub in s
Contains(s, sub) ==
    \E i \in 1..(Len(s) - Len(sub) + 1) :
        SubSeq(s, i, i + Len(sub) - 1) = sub

\* s.count(c)
CountChar(s, c) == Cardinality({i \in 1..Len(s) : s[i] = c})

\* the first position from i on that holds no white space
RECURSIVE SkipSpaces(_, _)
SkipSpaces(s, i) ==
    IF i <= Len(s) /\ s[i] = " " THEN SkipSpaces(s, i + 1) ELSE i

\* re.split(r'[.;]\s*and\s*|[.;]\s*', s) from position i on, field being
\* the characters read since the last separator
RECURSIVE ReSplit(_, _, _)
ReSplit(s, i, field) ==
    IF i > Len(s) THEN <<field>>
    ELSE IF s[i] \in {".", ";"}
    THEN LET j == SkipSpaces(s, i + 1)
         IN  IF j + 2 <= Len(s) /\ SubSeq(s, j, j + 2) = <<"a", "n", "d">>
             THEN <<field>> \o ReSplit(s, SkipSpaces(s, j + 3), <<>>)
             ELSE <<field>> \o ReSplit(s, j, <<>>)
    ELSE ReSplit(s, i + 1, Append(field, s[i]))

\* lines 64-70: <<is_complex, sub_queries>>
analyze_query(query) ==
    IF Contains([i \in 1..Len(query) |-> Lower(query[i])],
                <<"a", "n", "d">>)
       \/ CountChar(query, ".") > 1
    THEN LET parts == ReSplit(query, 1, <<>>)
             stripped == [i \in 1..Len(parts) |-> Strip(parts[i])]
         IN  <<TRUE, SelectSeq(stripped, LAMBDA q : q # <<>>)>>
    ELSE <<FALSE, <<query>>>>

\* ---- AgenticRAG.agentic_rag
\* the loop over sub_queries[i..] (lines 98-104, or lines 106-111 for a
\* query that is not complex): the results and the reasoning steps
RECURSIVE SubQueryLoop(_, _, _, _, _, _)
SubQueryLoop(db, sub_queries, collections, top_k, env, i) ==
    IF i > Len(sub_queries)
    THEN [all_results |-> <<>>, reasoning |-> <<>>]
    ELSE
    LET results == Retrieve(db, sub_queries[i], collections, top_k,
                            env.retrievals[i])
        rest == SubQueryLoop(db, sub_queries, collections, top_k, env,
                             i + 1)
    IN  [all_results |-> results \o rest.all_results,
         reasoning |-> <<[step |-> "retrieved", count |-> Len(results),
                          query |-> sub_queries[i]]>> \o rest.reasoning]

agentic_rag(self, db, query, collections, top_k, fine_tune, env) ==
    LET analysis == analyze_query(query)
        is_complex == analysis[1]
        sub_queries == analysis[2]
        loop == SubQueryLoop(db, sub_queries, collections, top_k, env, 1)
        all_results == loop.all_results
        reasoning_steps ==
            <<[step |-> "analysis", count |-> 0, query |-> <<>>]>>
            \o (IF is_complex
                THEN <<[step |-> "split", count |-> Len(sub_queries),
                        query |-> <<>>]>>
                ELSE <<>>)
            \o loop.reasoning
        first == FirstOccurrences(all_results)
        unique_results ==
            Prefix(SortedBySimilarity(
                       [k \in 1..Len(first) |-> all_results[first[k]]]),
                   top_k)
        n == Len(unique_results)
        lines == [i \in 1..n |-> ChunkLine(i, unique_results[i], TRUE)]
        context == [i \in 1..n |-> ContextLine(i, unique_results[i], TRUE)]
        structured_response ==
            StructuredResponse(query, unique_results, lines)
        prompt == [history_context |-> get_history_context(self),
                   context |-> context, question |-> <<query>>]
        structured_answer == StructuredAnswer(env.llm.content)
    IN  IF collections = <<>>
        THEN Outcome(self,
                 Returns("No document collections available to query.",
                         NoContent), 0)
        ELSE IF query = <<>>
        THEN Outcome(self, Returns("No query provided.", NoContent), 0)
        ELSE IF all_results = <<>>
        THEN Outcome(self,
                 [Returns("No relevant documents found.", NoContent)
                      EXCEPT !.reasoning = reasoning_steps], 0)
        ELSE IF ~fine_tune
        THEN Recording(self, query, JsonDumps(structured_response, 0),
                 [Returns("Structured Output RAG Response:",
                          JsonDumps(structured_response, 2))
                      EXCEPT !.reasoning = reasoning_steps],
                 Len(all_results), <<>>)
        ELSE IF env.llm.raises
        THEN Except(self, "Error processing query: ", Len(all_results),
                    <<prompt>>, "llm")
        ELSE IF JsonLoadsRaises(structured_answer)
        THEN [Outcome(self,
                  [Returns("Error: Invalid JSON response from LLM:",
                           AnswerText(structured_answer))
                       EXCEPT !.reasoning = reasoning_steps],
                  Len(all_results))
                  EXCEPT !.prompts = <<prompt>>, !.exception = "json"]
        ELSE Recording(self, query, AnswerText(structured_answer),
                 [Returns("Structured Output RAG Response:",
                          JsonReformat(structured_answer, 2))
                      EXCEPT !.reasoning = reasoning_steps],
                 Len(all_results), <<prompt>>)

\* ------------------------------------------------- specification SpecRAG
\* one instance of a RAG variant over a store that holds a PDF with one
\* chunk and a PDF without text: the instance is constructed in the initial
\* state, every call of its entry point is one action

\* the store the instance queries
RagStore == StoreWith(<<"B", "C">>)

\* the collection add_documents makes for the bytes b
RagName(b) == CollectionName(get_pdf_hash(b, "start", FALSE))

\* the lists of collections the entry points are called with
RagLists ==
    {<<>>, <<RagName("B")>>, <<RagName("C")>>,
     <<RagName("C"), RagName("B")>>, <<RagName("B"), RagName("B")>>}

\* the distances the collections report to the variants
RagDists == {1}

\* the values of top_k, top_k_coarse and top_k_fine
RagTopK == {1, MaxTopK}

\* the queries: none, a simple one, and for agentic_rag one of two
\* sentences
RagQueries(v) ==
    IF v = "agentic"
    THEN {<<>>, <<"q">>, <<"a", ".", " ", "b", ".">>}
    ELSE {<<>>, <<"q">>}

\* the lists of queries multi_query_rag is called with
RagQueryLists == {<<>>, <<<<"q">>>>, <<<<"q">>, <<>>>>}

\* what the LLM answers
LlmAnswers(v) ==
    IF v \in {"structured_output", "agentic"}
    THEN {<<"t", " ", "{", "j", "}", " ">>, <<"{", "t", "}">>, <<"t">>}
    ELSE {<<" ", "t", " ">>}

\* what client.chat.completions.create can do: raise, or answer
LlmOutcomes(v) ==
    {[raises |-> TRUE, content |-> <<>>]} \cup
    {[raises |-> FALSE, content |-> c] : c \in LlmAnswers(v)}

\* the LLM is not called
NoLlmCall == [raises |-> FALSE, content |-> <<>>]

\* what the embedder and the collections cols can do during one call of
\* query_collections
RagInvocations(db, cols, top_k) ==
    {e \in QueryEnvs(db, cols, top_k) :
        \A i \in 1..Len(e.outcomes) : \A j \in 1..Len(e.outcomes[i].hits) :
            e.outcomes[i].hits[j].dist \in RagDists}

\* what they can do during the calls of query_collections on lists[1],
\* lists[2], ..., in turn
RECURSIVE RetrievalSeqs(_, _, _)
RetrievalSeqs(db, lists, top_k) ==
    IF lists = <<>> THEN {<<>>}
    ELSE {<<first>> \o rest :
             first \in RagInvocations(db, lists[1], top_k),
             rest \in RetrievalSeqs(db, Tail(lists), top_k)}

\* what the libraries do during a call
Env(retrievals, get_raises, llm) ==
    [retrievals |-> retrievals, get_raises |-> get_raises, llm |-> llm]

\* the LLM does something only in a call that reaches it: probe is the
\* call when the LLM answers
LlmDraws(v, probe) ==
    IF probe.prompts = <<>> THEN {NoLlmCall} ELSE LlmOutcomes(v)

\* the instance
Self == [history |-> history, max_history |-> max_history]

Args(query, collections, top_k_coarse, top_k, fine_tune) ==
    [query |-> query, collections |-> collections,
     top_k_coarse |-> top_k_coarse, top_k |-> top_k,
     fine_tune |-> fine_tune]

\* the entry point name, called with args while the libraries did env,
\* comes to the end r
Finish(name, args, env, r) ==
    /\ pc' = name
    /\ ret' = r.ret
    /\ history' = r.history
    /\ prompts' = r.prompts
    /\ call' = [args |-> args, retrievals |-> env.retrievals,
                get_raises |-> env.get_raises, llm |-> env.llm,
                recorded |-> r.recorded, retrieved |-> r.retrieved,
                exception |-> r.exception, turns_before |-> Len(history)]
    /\ UNCHANGED <<chunkVars, chroma, variant, max_history>>

\* the calls of query_collections of a variant with one query
SingleQueryInvocations(v, query, collections) ==
    IF collections = <<>> THEN <<>>
    ELSE IF v # "conversational" /\ query = <<>> THEN <<>>
    ELSE <<collections>>

ConversationalRag ==
    /\ pc = "idle"
    /\ variant = "conversational"
    /\ \E query \in RagQueries(variant), collections \in RagLists,
          top_k \in RagTopK, fine_tune \in BOOLEAN :
         \E retrievals \in RetrievalSeqs(chroma,
                SingleQueryInvocations(variant, query, collections), top_k) :
           \E llm \in LlmDraws(variant,
                  conversational_rag(Self, chroma, query, collections,
                      top_k, fine_tune, Env(retrievals, FALSE, NoLlmCall))) :
             Finish("conversational_rag",
                    Args(query, collections, 0, top_k, fine_tune),
                    Env(retrievals, FALSE, llm),
                    conversational_rag(Self, chroma, query, collections,
                        top_k, fine_tune, Env(retrievals, FALSE, llm)))

\* the calls of query_collections of multi_query_rag: one per query
MultiQueryInvocations(queries, collections) ==
    IF collections = <<>> THEN <<>>
    ELSE [i \in 1..Len(queries) |-> collections]

MultiQueryRag ==
    /\ pc = "idle"
    /\ variant = "multi_query"
    /\ \E queries \in RagQueryLists, collections \in RagLists,
          top_k \in RagTopK, fine_tune \in BOOLEAN :
         \E retrievals \in RetrievalSeqs(chroma,
                MultiQueryInvocations(queries, collections), top_k) :
           \E llm \in LlmDraws(variant,
                  multi_query_rag(Self, chroma, queries, collections,
                      top_k, fine_tune, Env(retrievals, FALSE, NoLlmCall))) :
             Finish("multi_query_rag",
                    Args(queries, collections, 0, top_k, fine_tune),
                    Env(retrievals, FALSE, llm),
                    multi_query_rag(Self, chroma, queries, collections,
                        top_k, fine_tune, Env(retrievals, FALSE, llm)))

MultiDocumentRag ==
    /\ pc = "idle"
    /\ variant = "multi_document"
    /\ \E query \in RagQueries(variant), collections \in RagLists,
          top_k \in RagTopK, fine_tune \in BOOLEAN :
         \E retrievals \in RetrievalSeqs(chroma,
                SingleQueryInvocations(variant, query, collections), top_k) :
           \E llm \in LlmDraws(variant,
                  multi_document_rag(Self, chroma, query, collections,
                      top_k, fine_tune, Env(retrievals, FALSE, NoLlmCall))) :
             Finish("multi_document_rag",
                    Args(query, collections, 0, top_k, fine_tune),
                    Env(retrievals, FALSE, llm),
                    multi_document_rag(Self, chroma, query, collections,
                        top_k, fine_tune, Env(retrievals, FALSE, llm)))

\* the calls of query_collections of hierarchical_rag: one per collection
\* of the coarse selection
HierarchicalInvocations(db, query, collections, top_k_coarse, get_raises) ==
    IF collections = <<>> \/ query = <<>> \/ get_raises THEN <<>>
    ELSE LET coarse_results ==
                 CoarseSelection(db, collections, top_k_coarse)
         IN  [i \in 1..Len(coarse_results) |->
                 <<coarse_results[i].collection>>]

\* collection.get can raise in a call that reaches it
GetDraws(query, collections) ==
    IF collections = <<>> \/ query = <<>> THEN {FALSE} ELSE BOOLEAN

HierarchicalRag ==
    /\ pc = "idle"
    /\ variant = "hierarchical"
    /\ \E query \in RagQueries(variant), collections \in RagLists,
          top_k_coarse \in RagTopK, top_k_fine \in RagTopK,
          fine_tune \in BOOLEAN :
         \E get_raises \in GetDraws(query, collections) :
         \E retrievals \in RetrievalSeqs(chroma,
                HierarchicalInvocations(chroma, query, collections,
                    top_k_coarse, get_raises), top_k_fine) :
           \E llm \in LlmDraws(variant,
                  hierarchical_rag(Self, chroma, query, collections,
                      top_k_coarse, top_k_fine, fine_tune,
                      Env(retrievals, get_raises, NoLlmCall))) :
             Finish("hierarchical_rag",
                    Args(query, collections, top_k_coarse, top_k_fine,
                         fine_tune),
                    Env(retrievals, get_raises, llm),
                    hierarchical_rag(Self, chroma, query, collections,
                        top_k_coarse, top_k_fine, fine_tune,
                        Env(retrievals, get_raises, llm)))

StructuredOutputRag ==
    /\ pc = "idle"
    /\ variant = "structured_output"
    /\ \E query \in RagQueries(variant), collections \in RagLists,
          top_k \in RagTopK, fine_tune \in BOOLEAN :
         \E retrievals \in RetrievalSeqs(chroma,
                SingleQueryInvocations(variant, query, collections), top_k) :
           \E llm \in LlmDraws(variant,
                  structured_output_rag(Self, chroma, query, collections,
                      top_k, fine_tune, Env(retrievals, FALSE, NoLlmCall))) :
             Finish("structured_output_rag",
                    Args(query, collections, 0, top_k, fine_tune),
                    Env(retrievals, FALSE, llm),
                    structured_output_rag(Self, chroma, query, collections,
                        top_k, fine_tune, Env(retrievals, FALSE, llm)))

\* the calls of query_collections of agentic_rag: one per sub-query
AgenticInvocations(query, collections) ==
    IF collections = <<>> \/ query = <<>> THEN <<>>
    ELSE [i \in 1..Len(analyze_query(query)[2]) |-> collections]

AgenticRag ==
    /\ pc = "idle"
    /\ variant = "agentic"
    /\ \E query \in RagQueries(variant), collections \in RagLists,
          top_k \in RagTopK, fine_tune \in BOOLEAN :
         \E retrievals \in RetrievalSeqs(chroma,
                AgenticInvocations(query, collections), top_k) :
           \E llm \in LlmDraws(variant,
                  agentic_rag(Self, chroma, query, collections,
                      top_k, fine_tune, Env(retrievals, FALSE, NoLlmCall))) :
             Finish("agentic_rag",
                    Args(query, collections, 0, top_k, fine_tune),
                    Env(retrievals, FALSE, llm),
                    agentic_rag(Self, chroma, query, collections,
                        top_k, fine_tune, Env(retrievals, FALSE, llm)))

\* the instance after __init__(max_history)
InitRAG ==
    /\ pc = "idle"
    /\ ChunkIdle
    /\ chroma = RagStore
    /\ call = <<>>
    /\ ret = <<>>
    /\ variant \in Variants
    /\ max_history \in 1..MaxHistory
    /\ history = <<>>
    /\ prompts = <<>>

NextRAG ==
    \/ ConversationalRag
    \/ MultiQueryRag
    \/ MultiDocumentRag
    \/ HierarchicalRag
    \/ StructuredOutputRag
    \/ AgenticRag
    \/ Return

SpecRAG == InitRAG /\ [][NextRAG]_vars

\* ------------------------------------------- properties of the variants
RagPcs == {"conversational_rag", "multi_query_rag", "multi_document_rag",
           "hierarchical_rag", "structured_output_rag", "agentic_rag"}

\* an entry point has returned
RagCalled == pc \in RagPcs

\* the texts in front of an answer made from retrieved chunks
AnswerHeads ==
    {"Raw RAG Response:", "Fine-Tuned RAG Answer:",
     "Raw Multi-Query RAG Response:", "Fine-Tuned Multi-Query RAG Answer:",
     "Raw Multi-Document RAG Response:",
     "Fine-Tuned Multi-Document RAG Answer:",
     "Raw Hierarchical RAG Response:",
     "Fine-Tuned Hierarchical RAG Answer:",
     "Raw Structured Output RAG Response:",
     "Structured Output RAG Response:"}

ErrorHeads == {"Error processing query: ", "Error processing queries: "}

InvalidJsonHead == "Error: Invalid JSON response from LLM:"

\* the same text, however it is laid out
SameText(a, b) ==
    /\ a.lines = b.lines
    /\ a.tokens = b.tokens
    /\ a.structured = b.structured

\* s[-n:] for n >= 1
LastN(s, n) == SubSeq(s, Max(Len(s) - n + 1, 1), Len(s))

\* a call of query_collections of the last call raised inside
RetrievalFailed ==
    \E i \in 1..Len(call.retrievals) :
        \/ call.retrievals[i].embed_raises
        \/ \E j \in 1..Len(call.retrievals[i].outcomes) :
               QueryRaises(call.retrievals[i].outcomes[j])

\* C6: the LLM is called at most once per call, and only when fine_tune is
\* True, there are collections, the query is not empty and retrieval gave
\* at least one chunk
C6_LlmOptional ==
    RagCalled =>
        /\ Len(prompts) <= 1
        /\ prompts # <<>> =>
               /\ call.args.fine_tune
               /\ call.args.collections # <<>>
               /\ call.args.query # <<>>
               /\ call.retrieved >= 1

\* C7: after a call of any variant that returns an answer made from at
\* least one retrieved chunk, raw or composed by the LLM, the newest turn of the
\* history is the query and the response of this call
C7_TurnRecorded ==
    (RagCalled /\ ret.head \in AnswerHeads /\ call.retrieved >= 1) =>
        /\ history # <<>>
        /\ Last(history)[1] = call.args.query
        /\ SameText(Last(history)[2], ret.content)

\* C8: the history never holds more than max_history turns, and after a
\* call it holds the max_history newest of the turns it held before and
\* the turns the call recorded, oldest first
C8_HistoryBounded ==
    [][pc' \in RagPcs =>
          /\ Len(history') <= max_history
          /\ history' = LastN(history \o call'.recorded, max_history)]_vars

C8_Witness ==
    /\ RagCalled
    /\ max_history >= 2
    /\ call.turns_before = max_history
    /\ call.recorded # <<>>
    /\ Len(history) = max_history
    /\ Last(history) = call.recorded[1]
    /\ history[1] # history[2]

\* C9: no entry point lets an exception go: an exception of the LLM call
\* or of collection.get gives 'Error processing ...', an answer of the LLM
\* that is no JSON gives 'Error: Invalid JSON response from LLM', and
\* nothing else does; an exception inside query_collections is not
\* reported, the call goes on with no result of that retrieval
C9_NoExceptionEscapes ==
    RagCalled =>
        /\ ~ret.raised
        /\ call.exception \in {"llm", "get"} <=> ret.head \in ErrorHeads
        /\ call.exception = "json" <=> ret.head = InvalidJsonHead

C9_Witness ==
    /\ RagCalled
    /\ RetrievalFailed
    /\ call.exception = "llm"
    /\ ret.head \in ErrorHeads
    /\ ~ret.raised

\* C9 as it is stated: every exception, one raised by retrieval included,
\* is reported in the string returned as 'Error processing ...' or
\* 'Error: Invalid JSON response from LLM'
C9_FailuresReported ==
    RagCalled =>
        /\ ~ret.raised
        /\ (RetrievalFailed \/ call.exception # "none") =>
               ret.head \in ErrorHeads \cup {InvalidJsonHead}

\* the texts returned when there is nothing to answer from
NothingHeads ==
    {"No document collections available to query.", "No query provided.",
     "No queries provided.", "No relevant documents found for the query.",
     "No relevant documents found."}

\* C15: a call of any variant that retrieves no chunk, or that ends in an
\* error message, leaves the history of the instance as it was
C15_FailureKeepsHistory ==
    [][(/\ pc' \in RagPcs
        /\ \/ call'.retrieved = 0
           \/ ret'.head \in NothingHeads \cup ErrorHeads \cup {InvalidJsonHead})
           => history' = history]_vars

\* C16: the history in the prompt of a call is the turns the instance held
\* when it was called, which earlier calls recorded and which are at most
\* max_history, numbered from 1, oldest first; a prompt is sent only with
\* fine_tune True, and the call records its own turn only when the LLM
\* has answered
C16_PromptHistory ==
    [][(pc' \in RagPcs /\ prompts' # <<>>) =>
          /\ call'.args.fine_tune
          /\ Len(history) <= max_history
          /\ \A k \in 1..Len(prompts') :
                 prompts'[k].history_context =
                     [i \in 1..Len(history) |->
                         [turn |-> i, query |-> history[i][1],
                          response |-> history[i][2]]]
          /\ call'.recorded # <<>> => ~call'.llm.raises]_vars

\* a prompt was sent with a full history of two different turns, and the
\* call recorded its turn behind them
C16_Witness ==
    /\ RagCalled
    /\ prompts # <<>>
    /\ call.turns_before = max_history
    /\ Len(prompts[1].history_context) >= 2
    /\ prompts[1].history_context[1].response
           # prompts[1].history_context[2].response
    /\ call.recorded # <<>>
    /\ prompts[1].history_context[2].response = history[1][2]

\* ---------------------------------------------- load_pdfs_from_directory
\* A path is what the file system holds at it: nothing is configured (the
\* path is None), nothing exists there, a PDF file, a directory with its
\* listing, or a directory that cannot be listed.

\* a file of a listing: its name, its bytes, whether open() raises on it,
\* and the fault of the libraries while add_documents works on it
LoadFile(name, b, open_raises, fault) ==
    [name |-> name, bytes |-> b, open_raises |-> open_raises,
     fault |-> fault]

LoadFiles ==
    {LoadFile("a.pdf", "A", FALSE, "none"),
     LoadFile("b.pdf", "B", FALSE, "none"),
     LoadFile("b2.pdf", "B", FALSE, "none"),
     LoadFile("b3.pdf", "B", FALSE, "add"),
     LoadFile("C.PDF", "C", FALSE, "none"),
     LoadFile("d.pdf", "D", FALSE, "read"),
     LoadFile("n.txt", "B", FALSE, "none"),
     LoadFile("x.pdf", "B", TRUE, "none")}

\* the extension of the file names above
Ext(name) ==
    CASE name = "C.PDF" -> ".PDF"
      [] name = "n.txt" -> ".txt"
      [] OTHER -> ".pdf"

\* filename.lower().endswith(".pdf")
IsPdfName(name) ==
    LET ext == Ext(name)
    IN  (IF ext = ".PDF" THEN ".pdf" ELSE ext) = ".pdf"

NoPath == [kind |-> "none", bytes |-> "", files |-> <<>>]
MissingPath == [kind |-> "missing", bytes |-> "", files |-> <<>>]
LockedDir == [kind |-> "locked", bytes |-> "", files |-> <<>>]
PdfFileAt(b) == [kind |-> "file", bytes |-> b, files |-> <<>>]
DirWith(files) == [kind |-> "dir", bytes |-> "", files |-> files]

\* os.path.normpath(None) raises TypeError
NormpathRaises(path) == path.kind = "none"

\* os.path.exists(None) raises TypeError
ExistsRaises(path) == path.kind = "none"

\* os.path.exists(path)
Exists(path) == path.kind \in {"file", "dir", "locked"}

\* os.listdir(path) raises on a file and on a directory it may not read
ListdirRaises(path) == path.kind \in {"file", "locked"}

\* open(path, "rb") raises on a directory
OpenRaises(path) == path.kind \in {"dir", "locked"}

\* the position PdfReader leaves the file at when the text is extracted
ReaderPos == {"mid", "end"}

\* the ids of line 152: get_pdf_hash(file) is evaluated once per chunk and
\* reads what is left of the file each time
IdsChunk(b, n, reader_pos) ==
    [j \in 1..n |->
        ChunkId(get_pdf_hash(b, IF j = 1 THEN reader_pos ELSE "end", FALSE),
                j - 1)]

\* the body of the loop for the file f (lines 142-159), acc being the store
\* and the three lists so far and r what add_documents does for the file
LoadOneWith(acc, f, r, reader_pos) ==
    IF ~IsPdfName(f.name) THEN acc
    ELSE IF f.open_raises THEN acc
    ELSE IF r.ret[1] = None THEN [acc EXCEPT !.db = r.db]
    ELSE IF r.ret[2]
    THEN [db |-> r.db,
          documents |-> acc.documents \o PdfChunks[f.bytes].chunks,
          ids |-> acc.ids \o IdsChunk(f.bytes,
                                      Len(PdfChunks[f.bytes].chunks),
                                      reader_pos),
          collections |-> Append(acc.collections, r.ret[1])]
    ELSE [acc EXCEPT !.db = r.db, !.collections = Append(@, r.ret[1])]

LoadOne(acc, f, reader_pos) ==
    LoadOneWith(acc, f,
                add_documents(acc.db, f.bytes, "start", f.name, f.fault),
                reader_pos)

\* the loop over the listing files[i..] (lines 141-159 and 163-181)
RECURSIVE LoadAll(_, _, _, _)
LoadAll(acc, files, i, reader_pos) ==
    IF i > Len(files) THEN acc
    ELSE LoadAll(LoadOne(acc, files[i], reader_pos), files, i + 1,
                 reader_pos)

\* what load_pdfs_from_directory comes to: the triple returned, or the
\* exception raised, and the store left
Loaded(acc, documents, ids) ==
    [raised |-> FALSE, documents |-> documents, ids |-> ids,
     collections |-> acc.collections, db |-> acc.db]

LoadRaised(acc) ==
    [raised |-> TRUE, documents |-> <<>>, ids |-> <<>>,
     collections |-> <<>>, db |-> acc.db]

\* lines 193-201 of the except clause, r being what add_documents does
\* for the default PDF
LoadFallback(acc, r) ==
    IF r.ret[1] # None /\ r.ret[2]
    THEN Loaded([acc EXCEPT !.db = r.db,
                            !.collections = Append(@, r.ret[1])],
                <<>>, <<>>)
    ELSE Loaded([acc EXCEPT !.db = r.db], <<>>, <<>>)

\* the except clause (lines 188-201), entered with the lists acc
LoadHandler(acc, default_pdf) ==
    IF ExistsRaises(default_pdf) THEN LoadRaised(acc)
    ELSE IF ~Exists(default_pdf) THEN Loaded(acc, <<>>, <<>>)
    ELSE IF OpenRaises(default_pdf) THEN LoadRaised(acc)
    ELSE LoadFallback(acc,
             add_documents(acc.db, default_pdf.bytes, "start", "b.pdf",
                           "none"))

\* line 187
LoadedLists(acc) == Loaded(acc, acc.documents, acc.ids)

\* lines 161-187, acc being the store and the lists behind the loop over
\* the directory
LoadDefault(acc, default_pdf, reader_pos) ==
    IF acc.collections # <<>> THEN LoadedLists(acc)
    ELSE IF ExistsRaises(default_pdf) \/ ListdirRaises(default_pdf)
    THEN LoadHandler(acc, default_pdf)
    ELSE IF ~Exists(default_pdf) THEN LoadedLists(acc)
    ELSE LoadedLists(LoadAll(acc, default_pdf.files, 1, reader_pos))

\* the lists of line 132-134 and the store
LoadInit(db) ==
    [db |-> db, documents |-> <<>>, ids |-> <<>>, collections |-> <<>>]

\* load_pdfs_from_directory(directory) on the store db, with PDF_Directory
\* being default_pdf
load_pdfs_from_directory(db, directory, default_pdf, reader_pos) ==
    IF NormpathRaises(directory) \/ ListdirRaises(directory)
    THEN LoadHandler(LoadInit(db), default_pdf)
    ELSE LoadDefault(LoadAll(LoadInit(db), directory.files, 1, reader_pos),
                     default_pdf, reader_pos)

\* ------------------------------------------------ specification SpecLoad
\* load_pdfs_from_directory as a function of the store and the file system:
\* they are drawn in the initial state, the one action applies the function

MaxFiles == 2

\* the listings of at most n files, no two of the same name
Listings(n) ==
    UNION {{l \in [1..k -> LoadFiles] :
               \A i, j \in 1..k : l[i].name = l[j].name => i = j} :
           k \in 0..n}

\* what the directory argument can be
DirectoryPaths ==
    {NoPath, MissingPath, LockedDir, PdfFileAt("B")}
        \cup {DirWith(l) : l \in Listings(MaxFiles)}

\* what PDF_Directory can be
DefaultPaths ==
    {NoPath, MissingPath, PdfFileAt("B")}
        \cup {DirWith(l) : l \in Listings(1)}

\* the stores the call finds
LoadStores == {EmptyDb, StoreWith(<<"B">>)}

InitLoad ==
    /\ pc = "args"
    /\ ChunkIdle
    /\ RagIdle
    /\ chroma \in LoadStores
    /\ \E directory \in DirectoryPaths, default_pdf \in DefaultPaths,
          reader_pos \in ReaderPos :
         call = [directory |-> directory, default_pdf |-> default_pdf,
                 reader_pos |-> reader_pos]
    /\ ret = <<>>

\* the caller receives what the call r comes to
LoadReturn(r) ==
    /\ ret' = [raised |-> r.raised, documents |-> r.documents,
               ids |-> r.ids, collections |-> r.collections]
    /\ chroma' = r.db

LoadPdfs ==
    /\ pc = "args"
    /\ LoadReturn(load_pdfs_from_directory(chroma, call.directory,
                      call.default_pdf, call.reader_pos))
    /\ pc' = "load_pdfs_from_directory"
    /\ UNCHANGED <<chunkVars, call, ragVars>>

NextLoad == LoadPdfs

SpecLoad == InitLoad /\ [][NextLoad]_vars

\* ---------------------------------- properties of load_pdfs_from_directory
LoadedPdfs == pc = "load_pdfs_from_directory"

\* C11: load_pdfs_from_directory returns a triple for every directory
\* argument, every configured default location and every error of the file
\* system or of a PDF: it never raises
C11_LoadNeverRaises == LoadedPdfs => ~ret.raised

\* C22: the documents and ids that load_pdfs_from_directory returns are
\* aligned, and every id is the id under which add_documents stored that
\* chunk in a collection that is returned
C22_IdsAreStoredIds ==
    (LoadedPdfs /\ ~ret.raised) =>
        /\ Len(ret.ids) = Len(ret.documents)
        /\ \A i \in 1..Len(ret.ids) :
               \E k \in 1..Len(ret.collections) :
                   \E j \in 1..Count(chroma, ret.collections[k]) :
                       /\ chroma[ret.collections[k]].ids[j] = ret.ids[i]
                       /\ chroma[ret.collections[k]].documents[j]
                              = ret.documents[i]

\* the chunk ids of the results s are all different
DistinctChunks(s) ==
    \A i, j \in 1..Len(s) :
        s[i].metadata.chunk_id = s[j].metadata.chunk_id => i = j

\* C23: the collections that load_pdfs_from_directory returns are all
\* different, so that query_collections over them, whatever the
\* collections answer, returns no chunk id twice
C23_CollectionsOnce ==
    (LoadedPdfs /\ ~ret.raised) =>
        /\ \A i, j \in 1..Len(ret.collections) :
               ret.collections[i] = ret.collections[j] => i = j
        /\ \A e \in QueryEnvs(chroma, ret.collections, MaxTopK) :
               DistinctChunks(query_collections(chroma, "q", ret.collections,
                                  MaxTopK, e.embed_raises, e.outcomes))

\* ---------------------------------------------- specification SpecCoarse
\* the coarse step of hierarchical_rag (lines 70-77) as a function of the
\* store and of the arguments, which are drawn in the initial state

\* the stores add_documents leaves for one, two or three of the PDFs
CoarseStores ==
    {StoreWith(bs) : bs \in {<<"A">>, <<"B">>, <<"C">>, <<"A", "B">>,
                             <<"A", "C">>, <<"B", "C">>, <<"A", "B", "C">>}}

InitCoarse ==
    /\ pc = "args"
    /\ ChunkIdle
    /\ RagIdle
    /\ chroma \in CoarseStores
    /\ \E collections \in CollectionLists(chroma),
          top_k_coarse \in 1..MaxTopK :
         call = [collections |-> collections,
                 top_k_coarse |-> top_k_coarse]
    /\ ret = <<>>

CoarseSelect ==
    /\ pc = "args"
    /\ ret' = CoarseSelection(chroma, call.collections, call.top_k_coarse)
    /\ pc' = "coarse_results"
    /\ UNCHANGED <<chunkVars, chroma, call, ragVars>>

NextCoarse == CoarseSelect

SpecCoarse == InitCoarse /\ [][NextCoarse]_vars

\* ------------------------------------------- properties of the coarse step
\* the number of pages of the PDF the collection was made from
PdfPageCount(collection) == Len(PdfPages(collection[2][2]))

CoarseSelected == {ret[i].collection : i \in 1..Len(ret)}

\* C12: the coarse step selects the PDFs with the most pages: a collection
\* that holds chunks and is not selected has no more pages than any
\* collection that is selected
C12_MorePagesPreferred ==
    pc = "coarse_results" =>
        \A c \in Range(call.collections) :
            chroma[c].metadatas # <<>> /\ c \notin CoarseSelected =>
                \A s \in CoarseSelected : PdfPageCount(s) >= PdfPageCount(c)

\* --------------------------------------------- specification SpecAnalyze
\* analyze_query as a pure function: the query is drawn in the initial
\* state, the one action applies the function

MaxTokens == 5

\* what the queries are written with
QueryTokens ==
    {<<"x">>, <<" ">>, <<"a", "n", "d">>, <<".">>, <<";">>, <<"A">>}

RECURSIVE Concat(_)
Concat(tokens) ==
    IF tokens = <<>> THEN <<>> ELSE tokens[1] \o Concat(Tail(tokens))

InitAnalyze ==
    /\ pc = "args"
    /\ ChunkIdle
    /\ RagIdle
    /\ chroma = EmptyDb
    /\ \E n \in 0..MaxTokens :
         \E tokens \in [1..n -> QueryTokens] :
           call = [query |-> Concat(tokens)]
    /\ ret = <<>>

AnalyzeQuery ==
    /\ pc = "args"
    /\ ret' = analyze_query(call.query)
    /\ pc' = "analyze_query"
    /\ UNCHANGED <<chunkVars, chroma, call, ragVars>>

NextAnalyze == AnalyzeQuery

SpecAnalyze == InitAnalyze /\ [][NextAnalyze]_vars

\* ------------------------------------------- properties of analyze_query
Letters == {"x", "A", "a", "n", "d"}

\* the length of the separator that begins at position i of s: a sentence
\* terminator, or the word "and"; 0 if none begins there
SeparatorAt(s, i) ==
    IF s[i] \in {".", ";"} THEN 1
    ELSE IF /\ i + 2 <= Len(s)
            /\ SubSeq(s, i, i + 2) = <<"a", "n", "d">>
            /\ (i = 1 \/ s[i - 1] \notin Letters)
            /\ (i + 3 > Len(s) \/ s[i + 3] \notin Letters)
    THEN 3
    ELSE 0

\* the parts of s from position i on that the separators leave, field
\* being the characters read since the last separator
RECURSIVE SeparatedParts(_, _, _)
SeparatedParts(s, i, field) ==
    IF i > Len(s) THEN <<field>>
    ELSE IF SeparatorAt(s, i) > 0
    THEN <<field>> \o SeparatedParts(s, i + SeparatorAt(s, i), <<>>)
    ELSE SeparatedParts(s, i + 1, Append(field, s[i]))

\* the parts without the white space around them, the empty ones left out
NonEmptyParts(s) ==
    LET parts == SeparatedParts(s, 1, <<>>)
    IN  SelectSeq([i \in 1..Len(parts) |-> Strip(parts[i])],
                  LAMBDA q : q # <<>>)

\* C13: for a query classified as complex the sub-queries are the non-empty
\* parts of the query separated by the word "and" or by "." or ";"; a query
\* classified as simple yields the query alone
C13_SplitsByAndOrSentence ==
    pc = "analyze_query" =>
        IF ret[1] THEN ret[2] = NonEmptyParts(call.query)
        ELSE ret[2] = <<call.query>>

\* ------------------------------------------ specification SpecStructured
\* structured_output_rag as a function of its arguments and of what the
\* libraries do, on a store of two PDFs with file names of their own

StructuredStore ==
    add_documents(add_documents(EmptyDb, "A", "start", "./a.pdf", "none").db,
                  "B", "start", "b.pdf", "none").db

\* query_collections is not called
NoRetrieval == [embed_raises |-> FALSE, outcomes |-> <<>>]

InitStructured ==
    /\ pc = "args"
    /\ ChunkIdle
    /\ RagIdle
    /\ chroma = StructuredStore
    /\ \E query \in RagQueries("structured_output"),
          collections \in CollectionLists(StructuredStore),
          top_k \in 1..MaxTopK, fine_tune \in BOOLEAN :
         \E retrieval \in
                (IF collections = <<>> \/ query = <<>> THEN {NoRetrieval}
                 ELSE QueryEnvs(StructuredStore, collections, top_k)),
            llm \in (IF fine_tune THEN LlmOutcomes("structured_output")
                     ELSE {NoLlmCall}) :
           call = [args |-> Args(query, collections, 0, top_k, fine_tune),
                   retrieval |-> retrieval, llm |-> llm]
    /\ ret = <<>>

StructuredOutputCall ==
    /\ pc = "args"
    /\ LET r == structured_output_rag(Self, chroma, call.args.query,
                    call.args.collections, call.args.top_k,
                    call.args.fine_tune,
                    Env(<<call.retrieval>>, FALSE, call.llm))
       IN  /\ ret' = r.ret
           /\ history' = r.history
           /\ prompts' = r.prompts
    /\ pc' = "structured_output_rag"
    /\ UNCHANGED <<chunkVars, chroma, call, variant, max_history>>

NextStructured == StructuredOutputCall

SpecStructured == InitStructured /\ [][NextStructured]_vars

\* ---------------------------------- properties of structured_output_rag
\* the chunks query_collections gave the call
StructuredResults ==
    Retrieve(chroma, call.args.query, call.args.collections,
             call.args.top_k, call.retrieval)

\* the call was made with fine_tune False and retrieved a chunk
StructuredDirect ==
    /\ pc = "structured_output_rag"
    /\ ~call.args.fine_tune
    /\ call.args.collections # <<>>
    /\ call.args.query # <<>>
    /\ StructuredResults # <<>>

\* the text of a chunk, cut to its first 200 characters and "..." if it is
\* longer: a word and the blank behind it are two characters
CutTo200(document, answer) ==
    IF 2 * Len(document) - 1 > 200
    THEN answer.ellipsis /\ answer.summary = SubSeq(document, 1, 100)
    ELSE ~answer.ellipsis /\ answer.summary = document

\* C14: with fine_tune False and a chunk retrieved, structured_output_rag
\* returns the JSON object of the question and the answer, whose pages are
\* the page numbers of all retrieved chunks, each once, and whose source
\* and summary are the file name and the text, cut to 200 characters, of
\* a retrieved chunk of the highest similarity
C14_StructuredResponse ==
    StructuredDirect =>
        LET results == StructuredResults
            answer == ret.content.structured
        IN  /\ ~ret.raised
            /\ ret.head = "Structured Output RAG Response:"
            /\ ret.content.type = "json"
            /\ answer.question = call.args.query
            /\ \A p \in 1..20 :
                   p \in answer.pages <=>
                       \E i \in 1..Len(results) :
                           p \in Range(results[i].metadata.page_numbers)
            /\ answer.pages \subseteq 1..20
            /\ \E i \in 1..Len(results) :
                   /\ \A j \in 1..Len(results) :
                          results[j].similarity <= results[i].similarity
                   /\ answer.source = results[i].metadata.filename
                   /\ CutTo200(results[i].document, answer)

\* two chunks of different similarity and of different PDFs that share a
\* page number were retrieved, and the summary was cut
C14_Witness ==
    /\ StructuredDirect
    /\ ret.content.structured.ellipsis
    /\ \E i, j \in 1..Len(StructuredResults) :
           /\ StructuredResults[i].similarity
                  > StructuredResults[j].similarity
           /\ StructuredResults[i].metadata.filename
                  # StructuredResults[j].metadata.filename
           /\ Range(StructuredResults[i].metadata.page_numbers)
                  \cap Range(StructuredResults[j].metadata.page_numbers)
                  # {}

\* ------------------------------------ further properties of add_documents
\* no chunk can be made of the PDF with bytes b: it has no text
NoChunksOf(b) == PdfChunks[b].chunks = <<>>

\* the collection n holds all chunks of the PDF with bytes b, with an id
\* and a metadata for each
AllStored(db, n, b) ==
    /\ n \in StoredIn(db, b)
    /\ Len(db[n].ids) = Len(PdfChunks[b].chunks)
    /\ Len(db[n].metadatas) = Len(PdfChunks[b].chunks)

\* C17: add_documents returns processed = True only when all chunks are
\* stored; when it returns a collection and False because collection.add
\* raised or because the PDF gave no text or no chunks, the collection is
\* empty; and a call that finds the collection of its bytes empty, with
\* no fault of the libraries, processes the PDF again: it stores all
\* chunks and returns True, or finds no chunks again
C17_FailedStoreRetried ==
    [][pc' = "add_documents" =>
          LET b == call'.bytes
              n == RagName(b)
          IN  /\ ret'[2] => ret'[1] = n /\ AllStored(chroma', n, b)
              /\ (/\ ~ret'[2]
                  /\ ReachedCount(call')
                  /\ StoredIn(chroma, b) = {}
                  /\ call'.fault = "add" \/ NoChunksOf(b))
                     => /\ ret'[1] = n
                        /\ n \in DOMAIN chroma'
                        /\ Count(chroma', n) = 0
              /\ (/\ n \in DOMAIN chroma
                  /\ Count(chroma, n) = 0
                  /\ call'.fault = "none")
                     => IF NoChunksOf(b)
                        THEN ret' = <<n, FALSE>> /\ Count(chroma', n) = 0
                        ELSE ret' = <<n, TRUE>> /\ AllStored(chroma', n, b)
         ]_vars

\* collection.add raised for the two-chunk PDF: the call returned its
\* collection and False, and the collection is there and empty
C17_Witness ==
    /\ pc = "add_documents"
    /\ call.bytes = "A"
    /\ call.fault = "add"
    /\ ret = <<RagName("A"), FALSE>>
    /\ RagName("A") \in DOMAIN chroma
    /\ Count(chroma, RagName("A")) = 0

\* -------------------------------------- further properties of chunk_text
\* C18: for 0 < overlap < max_length the page_numbers of every chunk are
\* not empty, strictly increasing, and name only pages that contributed a
\* word to the chunk
C18_PagesSound ==
    (Chunked /\ 0 < overlap /\ overlap < max_length) =>
        \A i \in 1..Len(chunks) :
            LET pn == chunk_metadata[i].page_numbers
            IN  /\ pn # <<>>
                /\ \A j \in 1..(Len(pn) - 1) : pn[j] < pn[j + 1]
                /\ Range(pn) \subseteq PagesOf(page_texts, chunks[i])

\* a chunk behind the first, made of overlap words and new words, has
\* words of two pages and names both
C18_Witness ==
    /\ Chunked
    /\ 0 < overlap
    /\ overlap < max_length
    /\ \E i \in 2..Len(chunks) :
           /\ Len(chunk_metadata[i].page_numbers) >= 2
           /\ Range(chunks[i]) \cap Range(chunks[i - 1]) # {}

\* C19: for 0 < overlap < max_length every chunk behind the first holds a
\* word that lies behind the end of the chunk before it: no chunk is made
\* of overlap words alone
C19_NewWordInEveryChunk ==
    (Chunked /\ 0 < overlap /\ overlap < max_length) =>
        \A i \in 2..Len(chunks) :
            \E w \in Range(chunks[i]) : w > Last(chunks[i - 1])

\* -------------------------------- further properties of query_collections
\* C20: every result of query_collections is a stored chunk with the id it
\* is stored under and with the page numbers chunk_text gave it, the same
\* integers in the same order
C20_PagesRoundTrip ==
    Queried =>
        \A k \in 1..Len(ret) :
            \E n \in DOMAIN chroma :
                \E i \in 1..Count(chroma, n) :
                    /\ ret[k].document = chroma[n].documents[i]
                    /\ ret[k].metadata.chunk_id = chroma[n].ids[i]
                    /\ ret[k].metadata.page_numbers =
                           PdfChunks[n[2][2]].chunk_metadata[i].page_numbers

\* two chunks are returned, one of them of ten pages up to page 10, the
\* other of pages 10 and 11
C20_Witness ==
    /\ Queried
    /\ Len(ret) = 2
    /\ \E k \in 1..2 : ret[k].metadata.page_numbers = <<10, 11>>
    /\ \E k \in 1..2 : Len(ret[k].metadata.page_numbers) = 10

\* the embedder and collection.query answered in the call c
LibrariesAnswered(c) ==
    /\ ~c.embed_raises
    /\ \A i \in 1..Len(c.outcomes) : ~c.outcomes[i].raises

\* the number of results the collections reported in the call c
RECURSIVE HitCount(_, _)
HitCount(outcomes, i) ==
    IF i > Len(outcomes) THEN 0
    ELSE Len(outcomes[i].hits) + HitCount(outcomes, i + 1)

\* C21: when the embedder and the collections answer, query_collections
\* returns the top_k best of the reported results; one reported with a
\* distance of None has similarity 0, every other one 1 - distance / 2
\* (kept as twice that value, 2 - distance)
C21_NoneDistanceIsZero ==
    (Queried /\ LibrariesAnswered(call)) =>
        /\ Len(ret) = Min(call.top_k, HitCount(call.outcomes, 1))
        /\ HitCount(call.outcomes, 1) <= call.top_k =>
               \A i \in 1..Len(call.outcomes) :
                   \A j \in 1..Len(call.outcomes[i].hits) :
                       LET hit == call.outcomes[i].hits[j]
                       IN  \E k \in 1..Len(ret) :
                               /\ ret[k].metadata.chunk_id =
                                      chroma[call.collections[i]].ids[hit.idx]
                               /\ ret[k].similarity =
                                      IF hit.dist = DistNone THEN 0
                                      ELSE 2 - hit.dist

====
